---- MODULE Spec2Model ----
(***************************************************************************)
(* Attendance backend (Backend/server.js) over the PostgreSQL table        *)
(* "attendance" (init.sql, initializeDatabase).                            *)
(*                                                                         *)
(* Every route handler is async: it runs synchronously up to an            *)
(* `await pool.query(...)`, the statement executes atomically in the       *)
(* database, and the handler resumes.  A handler with two statements is    *)
(* therefore two atomic steps: (validation + first statement + the code    *)
(* up to the second query) and (second statement + response).  Other       *)
(* requests interleave between the two.                                    *)
(*                                                                         *)
(* Values                                                                  *)
(*   employeeId  [def, s]   def = FALSE is a missing (undefined) field,    *)
(*                          s the string as a tuple of characters          *)
(*   date        <<y, m, d>> the text "YYYY-MM-DD"                         *)
(*   time (JS)   [k, h, m, s]  k = "undef"  field missing / SQL NULL       *)
(*                             k = "hm"     "HH:MM"                        *)
(*                             k = "hms"    "HH:MM:SS"                     *)
(*                             k = "hmPM"   "HH:MM PM"                     *)
(*                             k = "bad"    text that is no time of day    *)
(*   number (JS) [nan, v]                                                  *)
(*   duration    [null, nan, h, m]  the text "<h>h <m>m", or SQL NULL      *)
(* created_at / updated_at hold NOW() and are read by no handler; they are *)
(* not part of the state.  issued counts the POST and PUT requests         *)
(* received so far; a reply to GET /api/attendance carries the array of    *)
(* rows in its field rows.                                                 *)
(* call holds one direct call of a helper function (SpecPure): its         *)
(* arguments, and its result once it has returned.                         *)
(***************************************************************************)
EXTENDS Integers, Sequences, FiniteSets, TLC

VARIABLES attendance, nextId, req, resp, issued, call

vars == <<attendance, nextId, req, resp, issued, call>>

(* ---------------------------- bounds ---------------------------------- *)

\* requests received by the server in one behaviour
MaxRequests == 3

\* POST and PUT requests received in one behaviour that also has GET requests
MaxReadWrites == 2

\* concurrent HTTP requests in flight
Clients == {"c1", "c2"}

(* ---------------------------- inputs ---------------------------------- *)

Str(s) == [def |-> TRUE, s |-> s]

Undefined == [def |-> FALSE, s |-> <<>>]

ATS0001 == Str(<<"A", "T", "S", "0", "0", "0", "1">>)

ATS0002 == Str(<<"A", "T", "S", "0", "0", "0", "2">>)

ATS0000 == Str(<<"A", "T", "S", "0", "0", "0", "0">>)

ATS001 == Str(<<"A", "T", "S", "0", "0", "1">>)

\* (employeeId, date) of the requests of Spec: two employees on one day
Keys == {<<ATS0001, <<2024, 3, 1>> >>, <<ATS0002, <<2024, 3, 1>> >>}

\* (employeeId, date) of the requests of SpecInput: well-formed, malformed and
\* missing identifiers, a calendar date and a date that does not exist
InputKeys ==
    {ATS0001, ATS0000, ATS001, Undefined} \X {<<2024, 3, 1>>, <<2024, 2, 30>>}

NoTime == [k |-> "undef", h |-> 0, m |-> 0, s |-> 0]

HM(h, m) == [k |-> "hm", h |-> h, m |-> m, s |-> 0]

HMS(h, m, s) == [k |-> "hms", h |-> h, m |-> m, s |-> s]

HMPM(h, m) == [k |-> "hmPM", h |-> h, m |-> m, s |-> 0]

BadTime == [k |-> "bad", h |-> 0, m |-> 0, s |-> 0]

Times == {NoTime, HM(9, 45), HM(17, 15), HMPM(9, 30), BadTime}

(* ------------------------ JavaScript helpers -------------------------- *)

Num(v) == [nan |-> FALSE, v |-> v]

NaN == [nan |-> TRUE, v |-> 0]

\* a < n, a <= n, a === n on JS numbers: every comparison with NaN is false
JsLt(a, n) == ~a.nan /\ a.v < n

JsLe(a, n) == ~a.nan /\ a.v <= n

JsEq(a, n) == ~a.nan /\ a.v = n

\* !x for a time field of the request body or of a fetched row
Falsy(t) == t.k = "undef"

\* clockIn.split(':').map(Number)
SplitNumbers(t) ==
    CASE t.k = "hm" -> <<Num(t.h), Num(t.m)>>
      [] t.k = "hms" -> <<Num(t.h), Num(t.m), Num(t.s)>>
      [] t.k = "hmPM" -> <<Num(t.h), NaN>>
      [] OTHER -> <<NaN>>

\* const [hours, minutes] = ...: a missing element is undefined
Elem(parts, i) == IF i <= Len(parts) THEN parts[i] ELSE NaN

determineStatus(clockIn) ==
    IF Falsy(clockIn) THEN "absent"
    ELSE LET parts == SplitNumbers(clockIn)
             hours == Elem(parts, 1)
             minutes == Elem(parts, 2)
         IN  IF JsLt(hours, 10) \/ (JsEq(hours, 10) /\ JsLe(minutes, 0))
             THEN "present"
             ELSE IF JsEq(hours, 10) /\ JsLe(minutes, 15)
                  THEN "late"
                  ELSE "late"

\* Math.ceil toward zero for negatives, Math.floor otherwise (moment absFloor)
AbsFloorDiv(a, b) == IF a < 0 THEN -((-a) \div b) ELSE a \div b

\* JavaScript %: the result has the sign of the dividend
JsRem(a, b) == a - b * AbsFloorDiv(a, b)

\* moment(x, 'HH:mm:ss'), forgiving mode: seconds since midnight of today;
\* text after the matched tokens ("PM") is ignored
MomentValid(t) == t.k \in {"hm", "hms", "hmPM"}

MomentSeconds(t) == t.h * 3600 + t.m * 60 + t.s

NullDuration == [null |-> TRUE, nan |-> FALSE, h |-> 0, m |-> 0]

Dur(h, m) == [null |-> FALSE, nan |-> FALSE, h |-> h, m |-> m]

NaNDuration == [null |-> FALSE, nan |-> TRUE, h |-> 0, m |-> 0]

\* duration.asMinutes() taken where duration.minutes() is meant
calculateDurationAsMinutes(clockIn, clockOut) ==
    IF Falsy(clockIn) \/ Falsy(clockOut) THEN [null |-> FALSE, nan |-> FALSE, h |-> 0, m |-> 0]
    ELSE LET seconds == (clockOut.h * 3600 + clockOut.m * 60 + clockOut.s)
                            - (clockIn.h * 3600 + clockIn.m * 60 + clockIn.s)
         IN  [null |-> FALSE, nan |-> FALSE, h |-> seconds \div 3600, m |-> seconds \div 60]

calculateDuration(clockIn, clockOut) ==
    IF Falsy(clockIn) \/ Falsy(clockOut) THEN Dur(0, 0)
    ELSE IF ~MomentValid(clockIn) \/ ~MomentValid(clockOut) THEN NaNDuration
    ELSE LET seconds == MomentSeconds(clockOut) - MomentSeconds(clockIn)
             hours == seconds \div 3600
             minutes == JsRem(AbsFloorDiv(seconds, 60), 60)
         IN  Dur(hours, minutes)

\* employeeId.match(/^ATS0[0-9]{3}$/)
Digits == {"0", "1", "2", "3", "4", "5", "6", "7", "8", "9"}

MatchesEmployeeId(s) ==
    /\ Len(s) = 7
    /\ s[1] = "A" /\ s[2] = "T" /\ s[3] = "S" /\ s[4] = "0"
    /\ \A i \in 5..7 : s[i] \in Digits

(* --------------------------- PostgreSQL ------------------------------- *)

\* $n::date
DaysIn(y, m) ==
    IF m \in {4, 6, 9, 11} THEN 30
    ELSE IF m = 2
         THEN IF (y % 4 = 0 /\ y % 100 # 0) \/ y % 400 = 0 THEN 29 ELSE 28
         ELSE 31

PgDateOk(d) == d[2] \in 1..12 /\ d[3] >= 1 /\ d[3] <= DaysIn(d[1], d[2])

\* $n::time; NULL for a missing parameter
PgTimeOk(t) ==
    CASE t.k = "undef" -> TRUE
      [] t.k \in {"hm", "hms"} ->
            t.m \in 0..59 /\ t.s \in 0..59
                /\ (t.h \in 0..23 \/ (t.h = 24 /\ t.m = 0 /\ t.s = 0))
      [] t.k = "hmPM" -> t.h \in 1..12 /\ t.m \in 0..59
      [] OTHER -> FALSE

\* the TIME value stored, as node-postgres hands it back ("HH:MM:SS" or null)
PgTime(t) ==
    CASE t.k = "undef" -> NoTime
      [] t.k = "hmPM" -> HMS((t.h % 12) + 12, t.m, 0)
      [] OTHER -> HMS(t.h, t.m, t.s)

Statuses == {"present", "late", "absent"}

\* SELECT * FROM attendance WHERE employee_id = $1 AND date = $2
SelectByKey(table, e, d) == {r \in table : r.employee_id = e /\ r.date = d}

\* the table declared without UNIQUE(employee_id, date)
NoUniqueConstraint(table, e, d) == FALSE

\* UNIQUE(employee_id, date)
UniqueViolation(table, e, d) == SelectByKey(table, e, d) # {}

\* the INSERT without its clock_in column
RowNullClockIn(id, e, d, clockIn, status) ==
    [id |-> id, employee_id |-> e, date |-> d, clock_in |-> NoTime,
     clock_out |-> NoTime, duration |-> NullDuration, status |-> status]

\* INSERT INTO attendance (employee_id, date, clock_in, status) ... RETURNING *
Row(id, e, d, clockIn, status) ==
    [id |-> id, employee_id |-> e, date |-> d, clock_in |-> PgTime(clockIn),
     clock_out |-> NoTime, duration |-> NullDuration, status |-> status]

\* SET clock_out = $1 only
UpdateRowKeepsDuration(r, clockOut, duration) ==
    [r EXCEPT !.clock_out = PgTime(clockOut)]

\* SET clock_out = COALESCE(clock_out, $1), duration = $2
UpdateRowCoalesce(r, clockOut, duration) ==
    [r EXCEPT !.clock_out = IF Falsy(r.clock_out) THEN PgTime(clockOut) ELSE r.clock_out,
              !.duration = duration]

\* UPDATE attendance SET clock_out = $1, duration = $2 WHERE employee_id = $3 AND date = $4
UpdateRow(r, clockOut, duration) ==
    [r EXCEPT !.clock_out = PgTime(clockOut), !.duration = duration]

\* the UPDATE without its WHERE clause
UpdateAllRows(table, e, d, clockOut, duration) ==
    {UpdateRow(r, clockOut, duration) : r \in table}

\* the table after the UPDATE: the rows its WHERE clause selects are rewritten
UpdateByKey(table, e, d, clockOut, duration) ==
    {IF r.employee_id = e /\ r.date = d THEN UpdateRow(r, clockOut, duration) ELSE r
        : r \in table}

(* --------------------------- requests --------------------------------- *)

Idle == [pc |-> "idle", e |-> <<>>, d |-> <<0, 0, 0>>, t |-> NoTime,
         status |-> "", duration |-> NullDuration]

NoResp == [code |-> 0, error |-> "", log |-> "", body |-> {}, rows |-> <<>>]

\* res.status(code).json(...): error is the message sent, log the error that
\* console.error printed in the catch block, body the row sent
Reply(code, error, log, body) ==
    [code |-> code, error |-> error, log |-> log, body |-> body, rows |-> <<>>]

Conflict == Reply(400, "Attendance record already exists for this date", "", {})

InvalidId == Reply(400, "Invalid employee ID format", "", {})

NotFound == Reply(404, "Record not found", "", {})

InvalidState == Reply(400, "Cannot clock out without clocking in first", "", {})

\* the catch block answering like the existence check
CreateFailedAsConflict(log) ==
    Reply(400, "Attendance record already exists for this date", log, {})

CreateFailed(log) == Reply(500, "Failed to create attendance record", log, {})

UpdateFailed(log) == Reply(500, "Failed to update attendance record", log, {})

\* no helper function is being called directly
NoCall == [fn |-> "", clockIn |-> NoTime, clockOut |-> NoTime, returned |-> FALSE,
           status |-> "", duration |-> NullDuration]

Init ==
    /\ attendance = {}
    /\ nextId = 1
    /\ req = [c \in Clients |-> Idle]
    /\ resp = [c \in Clients |-> NoResp]
    /\ issued = 0
    /\ call = NoCall

\* the handler returns (or its catch block answers) with no query pending
Answer(c, r) ==
    /\ resp' = [resp EXCEPT ![c] = r]
    /\ req' = [req EXCEPT ![c] = Idle]

\* the handler is suspended in its second pool.query
Await(c, pending) ==
    /\ req' = [req EXCEPT ![c] = pending]
    /\ resp' = [resp EXCEPT ![c] = NoResp]

Receive ==
    /\ issued < MaxRequests
    /\ issued' = issued + 1
    /\ UNCHANGED call

\* the existence check dropped from the handler
NeverExists(rows) == FALSE

\* existingRecord.rows.length > 0
AlreadyExists(rows) == rows # {}

\* the clock-in check dropped from the handler
AlwaysClockedIn(record) == FALSE

\* !record.clock_in
NotClockedIn(record) == Falsy(record.clock_in)

(* POST /api/attendance, up to the INSERT being sent *)
PostCheck(c, employeeId, date, clockIn) ==
    /\ req[c].pc = "idle"
    /\ Receive
    /\ UNCHANGED <<attendance, nextId>>
    /\ IF ~employeeId.def
       THEN Answer(c, CreateFailed("TypeError"))
       ELSE IF ~MatchesEmployeeId(employeeId.s)
       THEN Answer(c, InvalidId)
       ELSE IF ~PgDateOk(date)
       THEN Answer(c, CreateFailed("invalid date"))
       ELSE IF AlreadyExists(SelectByKey(attendance, employeeId.s, date))
       THEN Answer(c, Conflict)
       ELSE Await(c, [Idle EXCEPT !.pc = "insert", !.e = employeeId.s, !.d = date,
                                  !.t = clockIn, !.status = determineStatus(clockIn)])

(* POST /api/attendance, the INSERT and the response *)
PostInsert(c) ==
    /\ req[c].pc = "insert"
    /\ UNCHANGED <<issued, call>>
    /\ IF ~PgTimeOk(req[c].t)
       THEN /\ UNCHANGED <<attendance, nextId>>
            /\ Answer(c, CreateFailed("invalid time"))
       ELSE /\ nextId' = nextId + 1
            /\ IF req[c].status \notin Statuses
               THEN /\ UNCHANGED attendance
                    /\ Answer(c, CreateFailed("check violation"))
               ELSE IF UniqueViolation(attendance, req[c].e, req[c].d)
               THEN /\ UNCHANGED attendance
                    /\ Answer(c, CreateFailed("unique violation"))
               ELSE LET row == Row(nextId, req[c].e, req[c].d, req[c].t, req[c].status)
                    IN  /\ attendance' = attendance \cup {row}
                        /\ Answer(c, Reply(201, "", "", {row}))

(* PUT /api/attendance/:employee_id/:date, up to the UPDATE being sent *)
PutFetch(c, employee_id, date, clockOut) ==
    /\ req[c].pc = "idle"
    /\ Receive
    /\ UNCHANGED <<attendance, nextId>>
    /\ IF ~MatchesEmployeeId(employee_id)
       THEN Answer(c, InvalidId)
       ELSE IF ~PgDateOk(date)
       THEN Answer(c, UpdateFailed("invalid date"))
       ELSE LET rows == SelectByKey(attendance, employee_id, date)
            IN  IF rows = {}
                THEN Answer(c, NotFound)
                ELSE LET record == CHOOSE r \in rows : TRUE
                     IN  IF NotClockedIn(record)
                         THEN Answer(c, InvalidState)
                         ELSE Await(c, [Idle EXCEPT !.pc = "update", !.e = employee_id,
                                    !.d = date, !.t = clockOut,
                                    !.duration = calculateDuration(record.clock_in, clockOut)])

(* PUT /api/attendance/:employee_id/:date, the UPDATE and the response *)
PutUpdate(c) ==
    /\ req[c].pc = "update"
    /\ UNCHANGED <<nextId, issued, call>>
    /\ IF ~PgTimeOk(req[c].t)
       THEN /\ UNCHANGED attendance
            /\ Answer(c, UpdateFailed("invalid time"))
       ELSE /\ attendance' = UpdateByKey(attendance, req[c].e, req[c].d, req[c].t,
                                         req[c].duration)
            /\ Answer(c, Reply(200, "", "", SelectByKey(attendance', req[c].e, req[c].d)))

Next ==
    \/ \E c \in Clients, k \in Keys, t \in Times : PostCheck(c, k[1], k[2], t)
    \/ \E c \in Clients : PostInsert(c)
    \/ \E c \in Clients, k \in Keys, t \in Times : PutFetch(c, k[1].s, k[2], t)
    \/ \E c \in Clients : PutUpdate(c)

Spec == Init /\ [][Next]_vars

\* the same handlers under every kind of identifier and date; a route
\* parameter is always a string
NextInput ==
    \/ \E c \in Clients, k \in InputKeys, t \in Times : PostCheck(c, k[1], k[2], t)
    \/ \E c \in Clients : PostInsert(c)
    \/ \E c \in Clients, k \in {x \in InputKeys : x[1].def}, t \in Times :
          PutFetch(c, k[1].s, k[2], t)
    \/ \E c \in Clients : PutUpdate(c)

SpecInput == Init /\ [][NextInput]_vars

(* ------------------------- storage failures -------------------------- *)

\* pool.query rejects without the statement having run (connection lost, pool
\* exhausted): the catch block logs the error and answers 500

(* POST /api/attendance, the SELECT rejected *)
PostCheckFails(c, employeeId, date, clockIn) ==
    /\ req[c].pc = "idle"
    /\ Receive
    /\ UNCHANGED <<attendance, nextId>>
    /\ employeeId.def /\ MatchesEmployeeId(employeeId.s)
    /\ Answer(c, CreateFailed("connection"))

(* POST /api/attendance, the INSERT rejected *)
PostInsertFails(c) ==
    /\ req[c].pc = "insert"
    /\ UNCHANGED <<attendance, nextId, issued, call>>
    /\ Answer(c, CreateFailed("connection"))

(* PUT /api/attendance/:employee_id/:date, the SELECT rejected *)
PutFetchFails(c, employee_id, date, clockOut) ==
    /\ req[c].pc = "idle"
    /\ Receive
    /\ UNCHANGED <<attendance, nextId>>
    /\ MatchesEmployeeId(employee_id)
    /\ Answer(c, UpdateFailed("connection"))

(* PUT /api/attendance/:employee_id/:date, the UPDATE rejected *)
PutUpdateFails(c) ==
    /\ req[c].pc = "update"
    /\ UNCHANGED <<attendance, nextId, issued, call>>
    /\ Answer(c, UpdateFailed("connection"))

\* clock-in and clock-out times of the requests of SpecLive
LiveTimes == {HM(9, 45), HM(17, 15), BadTime}

NextLive ==
    \/ \E c \in Clients, k \in Keys, t \in LiveTimes : PostCheck(c, k[1], k[2], t)
    \/ \E c \in Clients, k \in Keys, t \in LiveTimes : PostCheckFails(c, k[1], k[2], t)
    \/ \E c \in Clients : PostInsert(c)
    \/ \E c \in Clients : PostInsertFails(c)
    \/ \E c \in Clients, k \in Keys, t \in LiveTimes : PutFetch(c, k[1].s, k[2], t)
    \/ \E c \in Clients, k \in Keys, t \in LiveTimes : PutFetchFails(c, k[1].s, k[2], t)
    \/ \E c \in Clients : PutUpdate(c)
    \/ \E c \in Clients : PutUpdateFails(c)

\* every query sent is answered, with a result or with an error, and the
\* event loop then resumes the handler that awaits it
SpecLive ==
    /\ Init
    /\ [][NextLive]_vars
    /\ \A c \in Clients : WF_vars(PostInsert(c) \/ PostInsertFails(c))
    /\ \A c \in Clients : WF_vars(PutUpdate(c) \/ PutUpdateFails(c))

(* ------------------------------ reads -------------------------------- *)

\* res.json(rows) of GET /api/attendance
ListReply(rows) == [code |-> 200, error |-> "", log |-> "", body |-> {}, rows |-> rows]

TodayNotFound == Reply(404, "No record found for today", "", {})

\* a GET handler has one query and answers in the step that receives it
ReceiveRead == UNCHANGED <<attendance, nextId, issued, call>>

\* the date compared as text "YYYY-MM-DD"
DateGt(d1, d2) ==
    \/ d1[1] > d2[1]
    \/ d1[1] = d2[1] /\ d1[2] > d2[2]
    \/ d1[1] = d2[1] /\ d1[2] = d2[2] /\ d1[3] > d2[3]

\* sort key of clock_in under DESC: NULL sorts before every time
ClockInKey(t) == IF Falsy(t) THEN 86400 ELSE t.h * 3600 + t.m * 60 + t.s

\* ORDER BY date DESC, clock_in DESC allows r1 before r2
MayPrecede(r1, r2) ==
    \/ DateGt(r1.date, r2.date)
    \/ r1.date = r2.date /\ ClockInKey(r1.clock_in) >= ClockInKey(r2.clock_in)

\* the orders in which the database may return the selected rows: rows that
\* tie on (date, clock_in) come in any order
Orderings(selected) ==
    {s \in [1..Cardinality(selected) -> selected] :
        /\ \A i, j \in DOMAIN s : i < j => (s[i] # s[j] /\ MayPrecede(s[i], s[j]))}

\* WHERE employee_id = $1 AND date = $2, without the date
TodayRowsAnyDate(table, employee_id, today) == {r \in table : r.employee_id = employee_id}

\* SELECT * FROM attendance WHERE employee_id = $1 AND date = $2 (today)
TodayRows(table, employee_id, today) == SelectByKey(table, employee_id, today)

\* the filter ignored
ListRowsUnfiltered(table, employee_id) == table

\* SELECT * FROM attendance [WHERE employee_id = $1]: if (employee_id) is
\* false for a missing and for an empty query parameter
ListRows(table, employee_id) ==
    IF employee_id.def /\ employee_id.s # <<>>
    THEN {r \in table : r.employee_id = employee_id.s}
    ELSE table

(* GET /api/attendance *)
GetList(c, employee_id, rows) ==
    /\ req[c].pc = "idle"
    /\ ReceiveRead
    /\ rows \in Orderings(ListRows(attendance, employee_id))
    /\ Answer(c, ListReply(rows))

(* GET /api/attendance/today/:employee_id; today is moment() formatted *)
GetToday(c, employee_id, today) ==
    /\ req[c].pc = "idle"
    /\ ReceiveRead
    /\ LET rows == TodayRows(attendance, employee_id, today)
       IN  IF rows = {}
           THEN Answer(c, TodayNotFound)
           ELSE Answer(c, Reply(200, "", "", {CHOOSE r \in rows : TRUE}))

\* two employees, two days, two clock-in times
ReadKeys == {<<ATS0001, <<2024, 3, 1>> >>, <<ATS0002, <<2024, 3, 1>> >>,
             <<ATS0001, <<2024, 3, 2>> >>}

ReadTimes == {HM(9, 45), HM(17, 15)}

Today == {<<2024, 3, 1>>, <<2024, 3, 2>>}

Filters == {Undefined, Str(<<>>), ATS0001, ATS0002}

NextRead ==
    \/ \E c \in Clients, k \in ReadKeys, t \in ReadTimes :
          issued < MaxReadWrites /\ PostCheck(c, k[1], k[2], t)
    \/ \E c \in Clients : PostInsert(c)
    \/ \E c \in Clients, k \in ReadKeys :
          issued < MaxReadWrites /\ PutFetch(c, k[1].s, k[2], HM(17, 15))
    \/ \E c \in Clients : PutUpdate(c)
    \/ \E c \in Clients, f \in Filters :
          \E rows \in Orderings(ListRows(attendance, f)) : GetList(c, f, rows)
    \/ \E c \in Clients, e \in {ATS0001, ATS0002}, today \in Today :
          GetToday(c, e.s, today)

SpecRead == Init /\ [][NextRead]_vars

(* ------------------- the helper functions on their own ----------------- *)

\* times of day HH:MM and HH:MM:SS around the 10:00 cutoff and across the day
PureTimes ==
    {HM(h, m) : h \in {0, 9, 10, 11, 14, 17, 23}, m \in {0, 1, 15, 16, 30, 45, 59}}
        \cup {HMS(h, m, s) : h \in {9, 10, 17}, m \in {0, 15, 59}, s \in {0, 30, 59}}

\* arguments of calculateDuration: same-day times in both forms, and none
DurationTimes ==
    {HM(9, 0), HM(9, 45), HM(17, 15), HM(17, 30), HMS(9, 0, 30), HMS(9, 1, 0),
     HMS(17, 29, 59), HM(23, 59), NoTime}

InitPure ==
    /\ attendance = {}
    /\ nextId = 1
    /\ req = [c \in Clients |-> Idle]
    /\ resp = [c \in Clients |-> NoResp]
    /\ issued = 0
    /\ \/ \E t \in PureTimes \cup {NoTime} :
             call = [NoCall EXCEPT !.fn = "determineStatus", !.clockIn = t]
       \/ \E t1, t2 \in DurationTimes :
             call = [NoCall EXCEPT !.fn = "calculateDuration", !.clockIn = t1,
                                   !.clockOut = t2]

CallDetermineStatus ==
    /\ call.fn = "determineStatus" /\ ~call.returned
    /\ call' = [call EXCEPT !.returned = TRUE, !.status = determineStatus(call.clockIn)]
    /\ UNCHANGED <<attendance, nextId, req, resp, issued>>

CallCalculateDuration ==
    /\ call.fn = "calculateDuration" /\ ~call.returned
    /\ call' = [call EXCEPT !.returned = TRUE,
                            !.duration = calculateDuration(call.clockIn, call.clockOut)]
    /\ UNCHANGED <<attendance, nextId, req, resp, issued>>

NextPure ==
    \/ CallDetermineStatus
    \/ CallCalculateDuration

SpecPure == InitPure /\ [][NextPure]_vars

(* ----------------------------- claims --------------------------------- *)

SameKey(r1, r2) == r1.employee_id = r2.employee_id /\ r1.date = r2.date

\* a time of day in the forms the API documents, HH:MM or HH:MM:SS
WellFormedTime(t) == t.k \in {"hm", "hms"} /\ PgTimeOk(t)

\* position of a persisted record in NoRecord -> ClockedIn -> ClockedOut
Rank(r) == IF Falsy(r.clock_out) THEN 1 ELSE 2

\* what every step that receives a request of client c does
Receives(c) == req[c].pc = "idle" /\ issued' = issued + 1

\* C1: the table never holds two rows with the same (employee_id, date),
\* whatever the interleaving of the handlers' SELECTs, INSERTs and UPDATEs.
C1_OneRecordPerKey ==
    \A r1, r2 \in attendance : SameKey(r1, r2) => r1 = r2

\* two clock-ins raced for one key: one was created, the other's INSERT was refused
C1_Witness ==
    \E c1, c2 \in Clients :
        /\ resp[c1].code = 201
        /\ resp[c2].log = "unique violation"
        /\ \E r \in resp[c1].body : r \in attendance

\* C2: a clock-in whose key already has a row (clocked in or clocked out) is
\* answered 400 "already exists" for every clock-in time, and no row changes.
C2_SecondClockInConflicts ==
    [][\A c \in Clients, k \in Keys, t \in Times :
          (Receives(c) /\ SelectByKey(attendance, k[1].s, k[2]) # {}
                /\ PostCheck(c, k[1], k[2], t))
              => (resp'[c] = Conflict /\ req'[c] = Idle /\ attendance' = attendance)]_vars

\* a clock-in was refused as a duplicate while a clocked-out row is stored
C2_Witness ==
    \E c \in Clients :
        /\ resp[c] = Conflict
        /\ \E r \in attendance : ~Falsy(r.clock_out)

\* C3: a clock-in whose INSERT is refused by the uniqueness constraint is
\* answered with the same 400 conflict as the pre-check gives.
C3_RaceLoserGetsConflict ==
    \A c \in Clients :
        resp[c].log = "unique violation"
            => (resp[c].code = Conflict.code /\ resp[c].error = Conflict.error)

\* C4: a clock-out for a valid key without a row is answered 404 and creates
\* nothing; a clock-out carrying a well-formed time for a row that is clocked
\* in proceeds to its UPDATE, is answered 200, and leaves clock_out and
\* duration set on that row.
C4_ClockOutOrdering ==
    [][\A c \in Clients :
          /\ \A k \in Keys, t \in Times :
                (Receives(c) /\ PutFetch(c, k[1].s, k[2], t))
                    => /\ SelectByKey(attendance, k[1].s, k[2]) = {}
                          => (resp'[c] = NotFound /\ req'[c] = Idle
                                 /\ attendance' = attendance)
                       /\ (/\ WellFormedTime(t)
                           /\ \E r \in SelectByKey(attendance, k[1].s, k[2]) :
                                 ~Falsy(r.clock_in) /\ Falsy(r.clock_out))
                          => (req'[c].pc = "update" /\ req'[c].t = t
                                 /\ attendance' = attendance)
          /\ (req[c].pc = "update" /\ WellFormedTime(req[c].t) /\ PutUpdate(c))
                => /\ resp'[c].code = 200
                   /\ \E r \in attendance' :
                         /\ r.employee_id = req[c].e /\ r.date = req[c].d
                         /\ resp'[c].body = {r}
                         /\ ~Falsy(r.clock_out)
                         /\ ~r.duration.null /\ ~r.duration.nan]_vars

\* one client was told 404, another clocked out a row successfully
C4_Witness ==
    \E c1, c2 \in Clients :
        /\ resp[c1] = NotFound
        /\ resp[c2].code = 200
        /\ \E r \in resp[c2].body :
              r \in attendance /\ ~Falsy(r.clock_out) /\ ~r.duration.null

\* C5 as stated: once a row has clock_out, no step changes its clock_out or
\* its duration.  The steps looked at are those of requests that carry a
\* well-formed time.
C5_ClockOutSetOnce ==
    [][\A r \in attendance :
          ~Falsy(r.clock_out)
              => \/ \E r2 \in attendance' :
                       /\ r2.id = r.id
                       /\ r2.clock_out = r.clock_out
                       /\ r2.duration = r.duration
                 \/ \E c \in Clients :
                       /\ req[c].pc = "update" /\ req'[c] = Idle
                       /\ ~WellFormedTime(req[c].t)]_vars

\* C5 amended: a row that has clock_out is changed only by the UPDATE of a
\* clock-out request for the same key that is answered 200, and that UPDATE
\* overwrites clock_out and duration with the values of that request.
C5_OnlyClockOutOverwrites ==
    [][\A r \in attendance :
          ~Falsy(r.clock_out)
              => \/ r \in attendance'
                 \/ \E c \in Clients :
                       /\ PutUpdate(c)
                       /\ req[c].e = r.employee_id /\ req[c].d = r.date
                       /\ resp'[c].code = 200
                       /\ resp'[c].body = {[r EXCEPT !.clock_out = PgTime(req[c].t),
                                                     !.duration = req[c].duration]}
                       /\ attendance' = (attendance \ {r}) \cup resp'[c].body]_vars

\* two clock-outs of the same row were both answered 200 with different times
C5_Witness ==
    \E c1, c2 \in Clients :
        /\ resp[c1].code = 200
        /\ resp[c2].code = 200
        /\ \E r1 \in resp[c1].body, r2 \in resp[c2].body :
              /\ r1.id = r2.id
              /\ ~Falsy(r1.clock_out) /\ ~Falsy(r2.clock_out)
              /\ r1.clock_out # r2.clock_out
              /\ r2 \in attendance

\* C6: every stored row has a duration exactly when it has both clock_in and
\* clock_out.
C6_DurationIffBothTimes ==
    \A r \in attendance :
        (~r.duration.null) <=> (~Falsy(r.clock_in) /\ ~Falsy(r.clock_out))

\* C7: no stored row has clock_out without clock_in, and a clock-out for a
\* row without clock_in is answered 400 "cannot clock out" and changes nothing.
C7_NoClockOutWithoutClockIn ==
    /\ [](\A r \in attendance : ~Falsy(r.clock_out) => ~Falsy(r.clock_in))
    /\ [][\A c \in Clients, k \in Keys, t \in Times :
             (Receives(c)
                 /\ (\E r \in SelectByKey(attendance, k[1].s, k[2]) : Falsy(r.clock_in))
                 /\ PutFetch(c, k[1].s, k[2], t))
                 => (resp'[c] = InvalidState /\ req'[c] = Idle
                        /\ attendance' = attendance)]_vars

\* a clock-out was refused for a stored row that has no clock_in
C7_Witness ==
    \E c \in Clients :
        /\ resp[c] = InvalidState
        /\ \E r \in attendance : Falsy(r.clock_in) /\ Falsy(r.clock_out)

\* C8: every stored row has a status among present, late, absent, equal to
\* determineStatus of the clock_in the row holds.
C8_StatusIsClassifyOfClockIn ==
    \A r \in attendance :
        r.status \in Statuses /\ r.status = determineStatus(r.clock_in)

\* C9: the UPDATE of a clock-out answered 200 changes clock_out and duration
\* of the row at its key and nothing else: id, employee_id, date, clock_in and
\* status of that row and every other row stay as they were, no row appears.
C9_ClockOutFrame ==
    [][\A c \in Clients :
          (req[c].pc = "update" /\ PutUpdate(c) /\ resp'[c].code = 200)
              => /\ \A r \in attendance :
                       IF r.employee_id = req[c].e /\ r.date = req[c].d
                       THEN \E r2 \in attendance' :
                               r2 = [r EXCEPT !.clock_out = r2.clock_out,
                                              !.duration = r2.duration]
                       ELSE r \in attendance'
                 /\ Cardinality(attendance') = Cardinality(attendance)]_vars

\* a clock-out succeeded while a row of another key is stored
C9_Witness ==
    \E c \in Clients :
        /\ resp[c].code = 200
        /\ \E b \in resp[c].body, r \in attendance :
              ~SameKey(b, r) /\ ~Falsy(b.clock_out)

\* C10: a stored row stays stored under the same id and key, and its state
\* never moves back from ClockedOut to ClockedIn.
C10_ForwardOnly ==
    [][\A r \in attendance :
          \E r2 \in attendance' :
              r2.id = r.id /\ SameKey(r2, r) /\ Rank(r2) >= Rank(r)]_vars

\* the identifier pattern of the specification: ATS0, three digits, not 000
SpecIdentifier(s) ==
    /\ Len(s) = 7
    /\ SubSeq(s, 1, 4) = <<"A", "T", "S", "0">>
    /\ \A i \in 5..7 : s[i] \in Digits
    /\ SubSeq(s, 5, 7) # <<"0", "0", "0">>

\* seconds since midnight of a time of day HH:MM or HH:MM:SS
SecondsOfDay(t) == t.h * 3600 + t.m * 60 + t.s

\* C11: a clock-in or clock-out for a calendar date is refused with 400
\* "Invalid employee ID format", the table unchanged, exactly when its
\* employeeId is not ATS0 followed by three digits other than 000.
C11_IdentifierPattern ==
    [][\A c \in Clients, k \in {x \in InputKeys : x[1].def /\ PgDateOk(x[2])},
          t \in Times :
          /\ (Receives(c) /\ PostCheck(c, k[1], k[2], t))
                => ((resp'[c] = InvalidId /\ req'[c] = Idle /\ attendance' = attendance)
                        <=> ~SpecIdentifier(k[1].s))
          /\ (Receives(c) /\ PutFetch(c, k[1].s, k[2], t))
                => ((resp'[c] = InvalidId /\ req'[c] = Idle /\ attendance' = attendance)
                        <=> ~SpecIdentifier(k[1].s))]_vars

\* C12: a clock-in or clock-out whose employeeId is missing or does not match
\* the handler's pattern, or whose date is no calendar date, is answered 400
\* without a query having been sent: nothing is logged by a catch block, no
\* statement is pending and the table is unchanged.
C12_InvalidInputBeforeStorage ==
    [][\A c \in Clients, k \in InputKeys, t \in Times :
          (/\ Receives(c)
           /\ (~k[1].def \/ ~MatchesEmployeeId(k[1].s) \/ ~PgDateOk(k[2]))
           /\ (PostCheck(c, k[1], k[2], t) \/ (k[1].def /\ PutFetch(c, k[1].s, k[2], t))))
              => (resp'[c].code = 400 /\ resp'[c].log = "" /\ req'[c] = Idle
                     /\ attendance' = attendance)]_vars

\* C13: determineStatus returns absent for no time, present for a time of day
\* at or before 10:00:00 and late for every later one, seconds included.
C13_Classify ==
    (call.fn = "determineStatus" /\ call.returned)
        => call.status = IF call.clockIn = NoTime THEN "absent"
                         ELSE IF SecondsOfDay(call.clockIn) <= 10 * 3600 THEN "present"
                         ELSE "late"

\* C14: calculateDuration returns "0h 0m" when an argument is missing; for
\* clockOut at or after clockIn it returns "<H>h <M>m" with H = floor(e / 60)
\* and M = e mod 60, e the elapsed whole minutes.
C14_Duration ==
    (call.fn = "calculateDuration" /\ call.returned)
        => IF call.clockIn = NoTime \/ call.clockOut = NoTime
           THEN call.duration = Dur(0, 0)
           ELSE SecondsOfDay(call.clockOut) >= SecondsOfDay(call.clockIn)
                    => LET e == (SecondsOfDay(call.clockOut) - SecondsOfDay(call.clockIn))
                                    \div 60
                       IN  call.duration = Dur(e \div 60, e % 60)

\* calculateDuration("09:45", "17:15") has returned "7h 30m"
C14_Witness ==
    /\ call.fn = "calculateDuration" /\ call.returned
    /\ call.clockIn = HM(9, 45) /\ call.clockOut = HM(17, 15)
    /\ call.duration = Dur(7, 30)

Range(s) == {s[i] : i \in DOMAIN s}

\* C15: a GET today or GET list changes neither the table nor the id
\* sequence; GET today for an employee without a row dated today is answered
\* 404; while the row a clock-in returned with 201 is still stored as
\* returned, GET today on its date returns that same row and GET list, with
\* that employee as filter or without filter, contains it.
C15_ReadRoundTrip ==
    [][\A c \in Clients :
          /\ \A e \in {ATS0001, ATS0002}, today \in Today :
                (req[c].pc = "idle" /\ GetToday(c, e.s, today))
                    => /\ attendance' = attendance /\ nextId' = nextId
                       /\ (\A r \in attendance : ~(r.employee_id = e.s /\ r.date = today))
                             => (resp'[c].code = 404 /\ resp'[c].body = {})
                       /\ \A c1 \in Clients : \A r \in resp[c1].body :
                             (resp[c1].code = 201 /\ r \in attendance
                                  /\ r.employee_id = e.s /\ r.date = today)
                                 => (resp'[c].code = 200 /\ resp'[c].body = {r})
          /\ \A f \in Filters :
                (req[c].pc = "idle" /\ GetList(c, f, resp'[c].rows))
                    => /\ attendance' = attendance /\ nextId' = nextId
                       /\ \A c1 \in Clients : \A r \in resp[c1].body :
                             (resp[c1].code = 201 /\ r \in attendance
                                  /\ (f \in {Undefined, Str(r.employee_id)}))
                                 => (resp'[c].code = 200 /\ r \in Range(resp'[c].rows))]_vars

\* GET today has returned the very row that the clock-in answered with 201
C15_Witness ==
    \E c1, c2 \in Clients :
        /\ resp[c1].code = 201
        /\ resp[c2].code = 200
        /\ resp[c1].body # {}
        /\ resp[c2].body = resp[c1].body
        /\ resp[c1].body \subseteq attendance

\* a reply of GET /api/attendance
IsList(r) == r.code = 200 /\ r.body = {}

\* C16: GET list returns exactly the stored rows of the employee in a
\* non-empty filter, every stored row without a filter, each once, ordered by date
\* descending then clock_in descending; and two list replies over the same
\* rows are the same sequence, rows that tie on (date, clock_in) included.
C16_ListExactOrderedStable ==
    /\ [][\A c \in Clients, f \in Filters :
             (req[c].pc = "idle" /\ GetList(c, f, resp'[c].rows))
                 => LET expected == IF f.def THEN {r \in attendance : r.employee_id = f.s}
                                    ELSE attendance
                        rows == resp'[c].rows
                    IN  /\ f # Str(<<>>) => Range(rows) = expected
                        /\ Len(rows) = Cardinality(Range(rows))
                        /\ \A i, j \in DOMAIN rows :
                              i < j => \/ DateGt(rows[i].date, rows[j].date)
                                       \/ /\ rows[i].date = rows[j].date
                                          /\ ClockInKey(rows[i].clock_in)
                                                >= ClockInKey(rows[j].clock_in)]_vars
    /\ [](\A c1, c2 \in Clients :
             (IsList(resp[c1]) /\ IsList(resp[c2])
                  /\ Range(resp[c1].rows) = Range(resp[c2].rows))
                 => resp[c1].rows = resp[c2].rows)

\* C17: of the clock-ins that race for one key, the INSERT that finds the key
\* empty (and whose time and status the table accepts) is answered 201 and
\* adds one row holding its clock_in and its status; every INSERT that finds
\* the key taken is answered with an error and changes nothing; no two 201
\* replies are for the same key, and the row of a 201 reply stays stored
\* with that clock_in and status.
C17_OneClockInWins ==
    /\ [][\A c \in Clients :
             (req[c].pc = "insert" /\ PostInsert(c))
                 => LET taken == \E r \in attendance :
                                     r.employee_id = req[c].e /\ r.date = req[c].d
                        accepted == PgTimeOk(req[c].t) /\ req[c].status \in Statuses
                    IN  /\ resp'[c].code = 201 <=> (~taken /\ accepted)
                        /\ resp'[c].code = 201
                              => \E r \in attendance' :
                                    /\ attendance' = attendance \cup {r}
                                    /\ r \notin attendance
                                    /\ resp'[c].body = {r}
                                    /\ r.employee_id = req[c].e /\ r.date = req[c].d
                                    /\ r.clock_in = PgTime(req[c].t)
                                    /\ r.status = determineStatus(req[c].t)
                        /\ resp'[c].code # 201
                              => (resp'[c].code >= 400 /\ attendance' = attendance)]_vars
    /\ [](\A c1, c2 \in Clients :
             (c1 # c2 /\ resp[c1].code = 201 /\ resp[c2].code = 201)
                 => \A r1 \in resp[c1].body, r2 \in resp[c2].body : ~SameKey(r1, r2))
    /\ [](\A c \in Clients :
             resp[c].code = 201
                 => \A r \in resp[c].body :
                       \E r2 \in attendance :
                           /\ r2.id = r.id /\ SameKey(r2, r)
                           /\ r2.clock_in = r.clock_in /\ r2.status = r.status)

\* two clock-ins with different times raced for one key: the table holds
\* only the row of the one answered 201, the other was refused by the table
C17_Witness ==
    \E c1, c2 \in Clients :
        /\ resp[c1].code = 201
        /\ resp[c2].code = 500 /\ resp[c2].log = "unique violation"
        /\ attendance = resp[c1].body
        /\ \A r \in attendance : r.clock_in = HMS(17, 15, 0) /\ r.status = "late"

\* C18: every stored row that has clock_out has the duration that
\* calculateDuration gives for its clock_in and its stored clock_out.
C18_DurationOfStoredClockOut ==
    \A r \in attendance :
        ~Falsy(r.clock_out) => r.duration = calculateDuration(r.clock_in, r.clock_out)

\* C19: the duration stored by a clock-out that carries a time HH:MM or
\* HH:MM:SS and is answered 200 is "<H>h <M>m" with H >= 0 and 0 <= M <= 59,
\* also when that time is earlier than the row's clock_in.
C19_DurationNonNegative ==
    [][\A c \in Clients :
          (req[c].pc = "update" /\ WellFormedTime(req[c].t) /\ PutUpdate(c)
               /\ resp'[c].code = 200)
              => \A r \in resp'[c].body :
                    /\ r \in attendance'
                    /\ ~r.duration.null /\ ~r.duration.nan
                    /\ r.duration.h >= 0
                    /\ r.duration.m \in 0..59]_vars

\* C20: every clock-in and clock-out received is answered; a handler sends at
\* most two statements, a SELECT and then one INSERT or UPDATE, and the step
\* of the second statement ends the request with a response whether the
\* statement succeeded or failed; no response is sent while a statement is
\* pending and a response is replaced only by a new request of that client;
\* an error of a statement is answered 500 and leaves the table unchanged.
C20_BoundedRoundTrips ==
    /\ \A c \in Clients : (req[c].pc # "idle") ~> (req[c].pc = "idle")
    /\ [](\A c \in Clients :
             /\ req[c].pc # "idle" => resp[c] = NoResp
             /\ resp[c].log # "" => resp[c].code = 500)
    /\ [][\A c \in Clients :
             /\ (req[c].pc = "idle" /\ req'[c].pc # "idle")
                   => (issued' = issued + 1 /\ req'[c].pc \in {"insert", "update"}
                          /\ attendance' = attendance)
             /\ (req[c].pc # "idle" /\ <<req[c], resp[c]>>' # <<req[c], resp[c]>>)
                   => (req'[c] = Idle /\ resp'[c].code # 0 /\ issued' = issued)
             /\ (resp[c] # NoResp /\ resp'[c] # resp[c])
                   => (req[c].pc = "idle" /\ issued' = issued + 1)
             /\ (resp'[c].code = 500 /\ resp'[c] # resp[c])
                   => (attendance' = attendance /\ req'[c] = Idle)]_vars

\* the UPDATE of a clock-out was rejected: the request was answered 500 and
\* the row is still clocked in
C20_Witness ==
    \E c \in Clients :
        /\ resp[c] = UpdateFailed("connection")
        /\ req[c] = Idle
        /\ \E r \in attendance : ~Falsy(r.clock_in) /\ Falsy(r.clock_out)

====
